---- MODULE Spec2Model ----
(***************************************************************************)
(* A model of ghcn_tools.py: the fixed-width field extractor, the station  *)
(* metadata loader, the daily-observation loader and the wide-to-long      *)
(* reshape.                                                                *)
(*                                                                         *)
(* Text is a sequence of one-character strings, so that a slice, a         *)
(* lower-casing and a numeric conversion are computed character by         *)
(* character as the Python code computes them.  A float is held in fixed   *)
(* point, in units of 1/10000 (every input text of the model has at most  *)
(* four fractional digits, and every day value at most three, so that a   *)
(* value and its tenth are exact).                                         *)
(***************************************************************************)
EXTENDS Integers, Sequences, FiniteSets, TLC

VARIABLES pc, call, file, pos, data, handle, result, long, lookup

vars == <<pc, call, file, pos, data, handle, result, long, lookup>>

\* Largest number of lines of an input file.
MaxLines == 2

-----------------------------------------------------------------------------
(* Characters and text                                                     *)

UpperChars == <<"A","B","C","D","E","F","G","H","I","J","K","L","M",
                "N","O","P","Q","R","S","T","U","V","W","X","Y","Z">>

LowerChars == <<"a","b","c","d","e","f","g","h","i","j","k","l","m",
                "n","o","p","q","r","s","t","u","v","w","x","y","z">>

DigitChars == <<"0","1","2","3","4","5","6","7","8","9">>

\* str.lower() on one character
LowerChar(c) ==
    IF \E i \in 1..26 : UpperChars[i] = c
    THEN LowerChars[CHOOSE i \in 1..26 : UpperChars[i] = c]
    ELSE c

\* str.lower()
Lower(s) == [i \in 1..Len(s) |-> LowerChar(s[i])]

IsDigit(c) == \E i \in 1..10 : DigitChars[i] = c

DigitVal(c) == (CHOOSE i \in 1..10 : DigitChars[i] = c) - 1

\* the whitespace the conversions int() and float() strip
IsSpace(c) == c = " " \/ c = "\n"

Min(a, b) == IF a < b THEN a ELSE b

\* Python's string[start_idx:end_idx] for 0 <= start_idx <= end_idx: the
\* slice is clipped to the length of the string and never fails.
Slice(string, start_idx, end_idx) ==
    SubSeq(string, start_idx + 1, Min(end_idx, Len(string)))

RECURSIVE LStrip(_)
LStrip(s) == IF s # <<>> /\ IsSpace(Head(s)) THEN LStrip(Tail(s)) ELSE s

RECURSIVE RStrip(_)
RStrip(s) ==
    IF s # <<>> /\ IsSpace(s[Len(s)]) THEN RStrip(SubSeq(s, 1, Len(s) - 1)) ELSE s

Strip(s) == RStrip(LStrip(s))

-----------------------------------------------------------------------------
(* Values of table cells.  Every cell is a record of the same shape.       *)

StrCell(s) == [kind |-> "str", s |-> s, v |-> 0]
IntCell(n) == [kind |-> "int", s |-> <<>>, v |-> n]
\* a float, v in units of 1/10000
NumCell(t) == [kind |-> "float", s |-> <<>>, v |-> t]
\* np.nan (pandas also shows an unset slot None of a numeric column as NaN)
NaN == [kind |-> "nan", s |-> <<>>, v |-> 0]
\* the conversion raised ValueError
Err == [kind |-> "err", s |-> <<>>, v |-> 0]

IsErr(c) == c.kind = "err"

-----------------------------------------------------------------------------
(* helper functions, ghcn_tools.py 28-38                                   *)

trimmer(string, start_idx, end_idx) == Lower(Slice(string, start_idx, end_idx))

RECURSIVE DigitsValue(_)
\* the number a non-empty run of digits denotes
DigitsValue(ds) ==
    IF ds = <<>> THEN 0
    ELSE 10 * DigitsValue(SubSeq(ds, 1, Len(ds) - 1)) + DigitVal(ds[Len(ds)])

AllDigits(ds) == \A i \in 1..Len(ds) : IsDigit(ds[i])

HasSign(t) == t # <<>> /\ (Head(t) = "-" \/ Head(t) = "+")

Unsigned(t) == IF HasSign(t) THEN Tail(t) ELSE t

SignOf(t) == IF t # <<>> /\ Head(t) = "-" THEN -1 ELSE 1

\* int(text): surrounding whitespace is ignored, then an optional sign and
\* at least one digit; anything else raises.
PyInt(text) ==
    LET t == Strip(text)
        u == Unsigned(t)
    IN  IF u # <<>> /\ AllDigits(u)
        THEN IntCell(SignOf(t) * DigitsValue(u))
        ELSE Err

DotAt(u) == IF \E i \in 1..Len(u) : u[i] = "."
            THEN CHOOSE i \in 1..Len(u) : u[i] = "."
            ELSE Len(u) + 1

RECURSIVE Pow10(_)
Pow10(k) == IF k = 0 THEN 1 ELSE 10 * Pow10(k - 1)

\* float(text) for decimal text without exponent: surrounding whitespace is
\* ignored, then an optional sign, digits with at most one point and at
\* least one digit; anything else raises.  At most four fractional digits.
PyFloat(text) ==
    LET t == Strip(text)
        u == Unsigned(t)
        d == DotAt(u)
        ip == SubSeq(u, 1, d - 1)
        fp == SubSeq(u, d + 1, Len(u))
    IN  IF /\ AllDigits(ip) /\ AllDigits(fp)
           /\ Len(ip) + Len(fp) > 0
           /\ Len(fp) <= 4
        THEN NumCell(SignOf(t) * (DigitsValue(ip) * 10000
                                  + DigitsValue(fp) * Pow10(4 - Len(fp))))
        ELSE Err

to_int(string, start_idx, end_idx) == PyInt(trimmer(string, start_idx, end_idx))

to_float(string, start_idx, end_idx) == PyFloat(trimmer(string, start_idx, end_idx))

\* FALSE_VALUES[typ]
FALSE_VALUES(typ) ==
    CASE typ = "str" -> StrCell(<<>>)
      [] typ = "float" -> NaN
      [] typ = "int" -> IntCell(0)

\* CONVERSIONS[typ](line, start, end)
CONVERSIONS(typ, line, start, end) ==
    CASE typ = "str" -> StrCell(trimmer(line, start, end))
      [] typ = "float" -> to_float(line, start, end)
      [] typ = "int" -> to_int(line, start, end)

-----------------------------------------------------------------------------
(* load daily file, ghcn_tools.py 69-131                                   *)

\* WEATHER_TYPE_LOOKUP as the module defines it: <<key, value>> in source order
WeatherTypeTable ==
    << << <<"w","t","0","1">>,
          <<"w","t","_","f","o","g">> >>,
       << <<"w","t","0","2">>,
          <<"w","t","_","h","e","a","v","y","_","f","o","g">> >>,
       << <<"w","t","0","3">>,
          <<"w","t","_","t","h","u","n","d","e","r">> >>,
       << <<"w","t","0","4">>,
          <<"w","t","_","i","c","e">> >>,
       << <<"w","t","0","5">>,
          <<"w","t","_","h","a","i","l">> >>,
       << <<"w","t","0","6">>,
          <<"w","t","_","r","i","m","e">> >>,
       << <<"w","t","0","7">>,
          <<"w","t","_","d","u","s","t","_","s","a","n","d">> >>,
       << <<"w","t","0","8">>,
          <<"w","t","_","s","m","o","k","e">> >>,
       << <<"w","t","0","9">>,
          <<"w","t","_","b","l","o","w","i","n","g","_","s","n","o","w">> >>,
       << <<"w","t","1","0">>,
          <<"w","t","_","t","o","r","n","a","d","o">> >>,
       << <<"w","t","1","1">>,
          <<"w","t","_","h","i","g","h","_","w","i","n","d">> >>,
       << <<"w","t","1","2">>,
          <<"w","t","_","b","l","o","w","i","n","g","_","s","p","r","a","y">> >>,
       << <<"w","t","1","3">>,
          <<"w","t","_","m","i","s","t">> >>,
       << <<"w","t","1","4">>,
          <<"w","t","_","d","r","i","z","z","l","e">> >>,
       << <<"w","t","1","5">>,
          <<"w","t","_","f","r","e","e","z","i","n","g","_","d","r","i","z","z","l","e">> >>,
       << <<"w","t","1","6">>,
          <<"w","t","_","r","a","i","n">> >>,
       << <<"w","t","1","7">>,
          <<"w","t","_","f","r","e","e","z","i","n","g","_","r","a","i","n">> >>,
       << <<"w","t","1","8">>,
          <<"w","t","_","s","n","o","w">> >>,
       << <<"w","t","1","9">>,
          <<"w","t","_","u","n","k","n","o","w","n","_","p","r","e","c","i","p">> >>,
       << <<"w","t","2","1">>,
          <<"w","t","_","g","r","o","u","n","d","_","f","o","g">> >>,
       << <<"w","t","2","2">>,
          <<"w","t","_","i","c","e","_","f","o","g">> >> >>

\* the scale-by-10 variable names of daily_number_postprocess
ScaleByTen ==
    << <<"p","r","c","p">>,
       <<"t","m","a","x">>,
       <<"t","m","i","n">>,
       <<"a","w","n","d">>,
       <<"e","v","a","p">>,
       <<"m","d","e","v">>,
       <<"m","d","p","r">>,
       <<"m","d","t","n">>,
       <<"m","d","t","x">>,
       <<"m","n","p","n">>,
       <<"m","x","p","n">>,
       <<"t","o","b","s">>,
       <<"w","e","s","d">>,
       <<"w","e","s","f">>,
       <<"w","s","f","1">>,
       <<"w","s","f","2">>,
       <<"w","s","f","5">>,
       <<"w","s","f","g">>,
       <<"w","s","f","i">>,
       <<"w","s","f","m">> >>

\* calendar.isleap
isleap(year) == year % 4 = 0 /\ (year % 100 # 0 \/ year % 400 = 0)

\* calendar.mdays[1..12]
mdays == <<31, 28, 31, 30, 31, 30, 31, 31, 30, 31, 30, 31>>

\* monthrange(year, month)[-1]; -1 stands for the IllegalMonthError the
\* standard library raises for a month outside 1..12
monthrange(year, month) ==
    IF month \notin 1..12 THEN -1
    ELSE mdays[month] + (IF month = 2 /\ isleap(year) THEN 1 ELSE 0)

load_year(line) == to_int(line, 11, 15)

load_month(line) == to_int(line, 15, 17)

InLookup(table, key) == \E i \in 1..Len(table) : table[i][1] = key

LookupGet(table, key) == table[CHOOSE i \in 1..Len(table) : table[i][1] = key][2]

\* load_varname looking the code up as the file spells it, not lower-cased
load_varname_as_spelled(line) ==
    LET varname == Slice(line, 17, 21)
    IN  IF InLookup(lookup, varname) THEN LookupGet(lookup, varname) ELSE varname

load_varname(line) ==
    LET varname == trimmer(line, 17, 21)
    IN  IF InLookup(lookup, varname) THEN LookupGet(lookup, varname) ELSE varname

InScaleByTen(varname) == \E i \in 1..Len(ScaleByTen) : ScaleByTen[i] = varname

\* daily_number_postprocess with its first two tests exchanged: the scaling
\* is decided before the sentinel, so -9999 of a scaled variable gives -999.9
daily_number_postprocess_scale_first(number, varname) ==
    IF InScaleByTen(varname) THEN NumCell(number.v \div 10)
    ELSE IF number.v = (-9999) * 10000 THEN NaN
    ELSE number

\* number is a float cell; -9999 is -99990000 in units of 1/10000
daily_number_postprocess(number, varname) ==
    IF number.v = (-9999) * 10000 THEN NaN
    ELSE IF InScaleByTen(varname) THEN NumCell(number.v \div 10)
    ELSE number

\* day counts from 0, as range(ndays) does
start_idx(day) == 21 + day * 8

end_idx(day) == start_idx(day) + 5

\* one cell per day of the month; a cell is Err where to_float raised
load_days(line, varname, year, month) ==
    [d \in 1..monthrange(year, month) |->
        LET number == to_float(line, start_idx(d - 1), end_idx(d - 1))
        IN  IF IsErr(number) THEN Err
            ELSE daily_number_postprocess(number, varname)]

AnyErr(cells) == \E i \in 1..Len(cells) : IsErr(cells[i])

\* update_data: the list with the line's row appended, or raised = TRUE when
\* a conversion or monthrange raised (the list is then left as it was)
update_data(d, line) ==
    LET var == load_varname(line)
        year == load_year(line)
        month == load_month(line)
    IN  IF IsErr(year) \/ IsErr(month) THEN [raised |-> TRUE, data |-> d]
        ELSE IF monthrange(year.v, month.v) < 0 THEN [raised |-> TRUE, data |-> d]
        ELSE LET new_data == load_days(line, var, year.v, month.v)
             IN  IF AnyErr(new_data) THEN [raised |-> TRUE, data |-> d]
                 ELSE [raised |-> FALSE,
                       data |-> Append(d, <<year, month, StrCell(var)>> \o new_data)]

-----------------------------------------------------------------------------
(* Load meta data file, ghcn_tools.py 42-65                                *)

MetaNames ==
    << StrCell(<<"i","d">>),
       StrCell(<<"l","a","t">>),
       StrCell(<<"l","o","n">>),
       StrCell(<<"e","l","e","v">>),
       StrCell(<<"s","t","a","t","e">>),
       StrCell(<<"n","a","m","e">>),
       StrCell(<<"g","s","n","_","f","l","a","g">>),
       StrCell(<<"h","c","n","_","f","l","a","g">>),
       StrCell(<<"w","m","o","_","i","d">>) >>

start_idxs == <<0, 12, 21, 31, 38, 41, 72, 76, 80>>

end_idxs == <<11, 20, 30, 37, 40, 71, 75, 79, 85>>

types == <<"str", "float", "float", "float", "str", "str", "str", "str", "int">>

\* the field loop without its length test: every field is converted
FieldPresent_always(end, length) == TRUE

\* the test "if end < length" of the field loop
FieldPresent(end, length) == end < length

\* new_data of one line: one cell per schema field, Err where the
\* conversion raised
meta_new_data(line) ==
    [i \in 1..Len(types) |->
        IF FieldPresent(end_idxs[i], Len(line))
        THEN CONVERSIONS(types[i], line, start_idxs[i], end_idxs[i])
        ELSE FALSE_VALUES(types[i])]

-----------------------------------------------------------------------------
(* Tables                                                                   *)

NoTable == [made |-> FALSE, columns |-> <<>>, rows |-> <<>>]

MaxWidth(rows) ==
    IF rows = <<>> THEN 0
    ELSE LET i == CHOOSE i \in 1..Len(rows) :
                      \A j \in 1..Len(rows) : Len(rows[j]) <= Len(rows[i])
         IN  Len(rows[i])

\* pd.DataFrame(rows, columns=columns) for a list of row lists: shorter rows
\* are padded with unset slots (NaN) to the longest row; the constructor
\* raises (made = FALSE) unless there are no rows or the longest row has
\* exactly one slot per column.
DataFrame(rows, columns) ==
    IF rows # <<>> /\ MaxWidth(rows) # Len(columns) THEN NoTable
    ELSE [made |-> TRUE,
          columns |-> columns,
          rows |-> [i \in 1..Len(rows) |->
                       [j \in 1..Len(columns) |->
                           IF j <= Len(rows[i]) THEN rows[i][j] ELSE NaN]]]

\* ['year', 'month', 'varname'] + list(range(1, 32))
DailyColumns ==
    << StrCell(<<"y","e","a","r">>),
       StrCell(<<"m","o","n","t","h">>),
       StrCell(<<"v","a","r","n","a","m","e">>) >> \o [d \in 1..31 |-> IntCell(d)]

-----------------------------------------------------------------------------
(* useful formatting and postprocessing on daily files, 151-172            *)

\* position of the column with the given label
ColumnOf(columns, label) == CHOOSE j \in 1..Len(columns) : columns[j] = label

YearLabel == StrCell(<<"y","e","a","r">>)

MonthLabel == StrCell(<<"m","o","n","t","h">>)

VarnameLabel == StrCell(<<"v","a","r","n","a","m","e">>)

\* a selection of all 31 day labels, whatever the month
selected_days_all31(days) == [d \in 1..31 |-> d]

\* the day labels list(range(1, days+1)) selects
selected_days(days) == [d \in 1..days |-> d]

\* exchange_row_column taking the day columns by position instead of by
\* label: the row of day d holds the table's column number d
exchange_row_column_by_position(df) ==
    LET year == df.rows[1][ColumnOf(df.columns, YearLabel)].v
        month == df.rows[1][ColumnOf(df.columns, MonthLabel)].v
        days == monthrange(year, month)
    IN  [k \in 1..days |->
            [year |-> year, month |-> month, day |-> k,
             columns |-> [j \in 1..Len(df.rows) |->
                             df.rows[j][ColumnOf(df.columns, VarnameLabel)].s],
             values |-> [j \in 1..Len(df.rows) |-> df.rows[j][k]]]]

\* the transposed frame of one (year, month) group: one row per selected day
\* label, one column per row of the group (named by its varname), and the
\* columns year, month, day attached
exchange_row_column(df) ==
    LET year == df.rows[1][ColumnOf(df.columns, YearLabel)].v
        month == df.rows[1][ColumnOf(df.columns, MonthLabel)].v
        days == monthrange(year, month)
        sel == selected_days(days)
    IN  [k \in 1..Len(sel) |->
            [year |-> year, month |-> month, day |-> sel[k],
             columns |-> [j \in 1..Len(df.rows) |->
                             df.rows[j][ColumnOf(df.columns, VarnameLabel)].s],
             values |-> [j \in 1..Len(df.rows) |->
                            df.rows[j][ColumnOf(df.columns, IntCell(sel[k]))]]]]

RowKey(df, r) == <<r[ColumnOf(df.columns, YearLabel)].v,
                   r[ColumnOf(df.columns, MonthLabel)].v>>

GroupKeys(df) == {RowKey(df, df.rows[i]) : i \in 1..Len(df.rows)}

KeyLess(a, b) == a[1] < b[1] \/ (a[1] = b[1] /\ a[2] < b[2])

FirstKey(K) == CHOOSE k \in K : \A o \in K \ {k} : KeyLess(k, o)

\* the rows of one group, in table order
Group(df, k) ==
    [made |-> TRUE, columns |-> df.columns,
     rows |-> SelectSeq(df.rows, LAMBDA r : RowKey(df, r) = k)]

RECURSIVE ApplyGroups(_, _)
\* groupby(['year', 'month']).apply(exchange_row_column): the groups in key
\* order, their frames concatenated
ApplyGroups(df, K) ==
    IF K = {} THEN <<>>
    ELSE LET k == FirstKey(K)
         IN  exchange_row_column(Group(df, k)) \o ApplyGroups(df, K \ {k})

transpose_ghcn(df) == ApplyGroups(df, GroupKeys(df))

-----------------------------------------------------------------------------
(* Input files.  A file is the sequence of lines that iterating over the    *)
(* open file yields: every line but the last ends with a newline, the last *)
(* may or may not.                                                         *)

NL == <<"\n">>

Take(s, n) == SubSeq(s, 1, n)

Spaces(n) == [i \in 1..n |-> " "]

\* a station line of the documented layout, all nine fields set (85 characters)
MetaFull ==
    << "U","S","C","0","0","0","1","1","0","8","4"," "," ","3","2",".",
       "9","0","0","0"," "," ","-","8","5",".","9","6","6","7"," "," ",
       "1","2","6",".","2"," ","A","L"," ","M","A","D","I","S","O","N",
       " ","C","I","T","Y"," ","H","A","L","L"," "," "," "," "," "," ",
       " "," "," "," "," "," "," "," ","G","S","N"," ","H","C","N"," ",
       "7","2","2","2","8" >>

\* the same station with the optional columns gsn_flag, hcn_flag and wmo_id
\* left blank to the end of the line
MetaBlankTail == Take(MetaFull, 72) \o Spaces(13)

\* the station line as the files often have it: nothing after the name
MetaShort == Take(MetaFull, 73)

\* a station line whose latitude is not a number
MetaBadLat == Take(MetaFull, 12) \o <<" ","3","X",".","9","Y","0","0">> \o SubSeq(MetaFull, 21, 85)

\* lengths at which a station line is cut short
MetaCuts == {0, 15, 20, 84}

\* lines that end with a newline
MetaTerminated ==
    {MetaFull \o NL, MetaBlankTail \o NL, MetaShort \o NL, MetaBadLat \o NL}
    \cup {Take(MetaFull, n) \o NL : n \in MetaCuts}
    \cup {Take(MetaBadLat, n) \o NL : n \in {19, 20}}

\* lines a file can end with when its last newline is missing
MetaUnterminated == {MetaFull, Take(MetaFull, 20)}

\* the files whose lines are drawn from the two sets
Files(terminated, unterminated) ==
    UNION {{f \in [1..n -> terminated \cup unterminated] :
               \A i \in 1..(n - 1) : f[i] \in terminated} : n \in 0..MaxLines}

MetaFiles == Files(MetaTerminated, MetaUnterminated)

StationId == <<"U","S","C","0","0","0","1","1","0","8","4">>

RECURSIVE NatText(_)
\* the decimal digits of a natural number
NatText(n) ==
    IF n < 10 THEN <<DigitChars[n + 1]>>
    ELSE NatText(n \div 10) \o <<DigitChars[(n % 10) + 1]>>

\* text right-justified in a field of the given width
RightJustify(text, width) == Spaces(width - Len(text)) \o text

RECURSIVE DayFields(_, _)
\* the day fields d..31 of a daily line: a 5-character value and three flag
\* characters each
DayFields(value, d) ==
    IF d > 31 THEN <<>>
    ELSE value[d] \o Spaces(3) \o DayFields(value, d + 1)

\* a daily line of the documented layout (269 characters)
DailyText(year, month, element, value) ==
    StationId \o year \o month \o element \o DayFields(value, 1)

Sentinel == <<"-","9","9","9","9">>

\* day d holds 10*d+5, a different number each day
ValueByDay == [d \in 1..31 |-> RightJustify(NatText(10 * d + 5), 5)]

\* as ValueByDay, with the days 29, 30, 31 marked missing
ValueShortMonth == [d \in 1..31 |-> IF d > 28 THEN Sentinel ELSE ValueByDay[d]]

\* 00125 every day
Value125 == [d \in 1..31 |-> <<"0","0","1","2","5">>]

\* 00125 on the odd days, missing on the even days
Value125Odd == [d \in 1..31 |-> IF d % 2 = 1 THEN <<"0","0","1","2","5">> ELSE Sentinel]

\* 00001 on the odd days, missing on the even days
Value1Odd == [d \in 1..31 |-> IF d % 2 = 1 THEN <<"0","0","0","0","1">> ELSE Sentinel]

\* day 2 is not a number
ValueBad == [d \in 1..31 |-> IF d = 2 THEN <<" "," ","1","X","5">> ELSE ValueByDay[d]]

Y2021 == <<"2","0","2","1">>

Y2020 == <<"2","0","2","0">>

January == <<"0","1">>

February == <<"0","2">>

April == <<"0","4">>

DailyJanPrcp == DailyText(Y2021, January, <<"P","R","C","P">>, ValueByDay)

DailyFebPrcp == DailyText(Y2021, February, <<"P","R","C","P">>, ValueShortMonth)

\* lengths at which a daily line is cut short: to nothing, after the month,
\* and twice inside the value of day 31
DailyCuts == {0, 17, 263, 264}

\* lines that end with a newline
DailyTerminated ==
    {l \o NL : l \in
        {DailyJanPrcp,
         DailyFebPrcp,
         DailyText(Y2021, January, <<"T","M","A","X">>, Value125),
         DailyText(Y2020, February, <<"P","R","C","P">>, ValueShortMonth),
         DailyText(Y2021, January, <<"W","T","0","1">>, Value1Odd),
         DailyText(Y2021, April, <<"W","T","2","0">>, Value1Odd),
         DailyText(Y2021, February, <<"t","m","a","x">>, Value125Odd),
         DailyText(Y2021, February, <<"P","R","C","P">>, ValueBad),
         DailyText(<<"2","O","2","1">>, February, <<"P","R","C","P">>, ValueByDay),
         DailyText(Y2021, <<"1","3">>, <<"P","R","C","P">>, ValueByDay)}
        \cup {Take(DailyJanPrcp, n) : n \in DailyCuts}
        \cup {Take(DailyFebPrcp, 245)}}

\* lines a file can end with when its last newline is missing
DailyUnterminated == {DailyJanPrcp, DailyFebPrcp}

DailyFiles == Files(DailyTerminated, DailyUnterminated)

-----------------------------------------------------------------------------
(* The calls.  pc is the position of the one caller: a load call is open,  *)
(* one step per line read, close, return; the reshape is one step.         *)

\* positions at which a call chain has ended
Terminal == {"returned_meta", "returned_daily", "transposed", "error"}

Init ==
    /\ pc = "idle"
    /\ call = "none"
    /\ file = <<>>
    /\ pos = 0
    /\ data = <<>>
    /\ handle = "none"
    /\ result = NoTable
    /\ long = <<>>
    /\ lookup = WeatherTypeTable

\* load_ghcn_meta(filename) up to f = open(filename, 'r')
MetaOpen(f) ==
    /\ pc = "idle"
    /\ pc' = "meta_loop"
    /\ call' = "load_ghcn_meta"
    /\ file' = f
    /\ pos' = 0
    /\ data' = <<>>
    /\ handle' = "open"
    /\ result' = NoTable
    /\ long' = <<>>
    /\ UNCHANGED lookup

\* one pass of "for line in f" in load_ghcn_meta: the line is read, its nine
\* fields are extracted and the row is appended, unless a conversion raises
MetaLine ==
    /\ pc = "meta_loop"
    /\ pos < Len(file)
    /\ pos' = pos + 1
    /\ LET new_data == meta_new_data(file[pos + 1])
       IN  IF AnyErr(new_data)
           THEN pc' = "error" /\ UNCHANGED data
           ELSE pc' = pc /\ data' = Append(data, new_data)
    /\ UNCHANGED <<call, file, handle, result, long, lookup>>

\* f.close() after the loop of load_ghcn_meta
MetaClose ==
    /\ pc = "meta_loop"
    /\ pos = Len(file)
    /\ handle' = "closed"
    /\ pc' = "meta_closed"
    /\ UNCHANGED <<call, file, pos, data, result, long, lookup>>

\* return pd.DataFrame(data[1:], columns=data[0]) of load_ghcn_meta
MetaReturn ==
    /\ pc = "meta_closed"
    /\ LET table == DataFrame(data, MetaNames)
       IN  IF table.made
           THEN pc' = "returned_meta" /\ result' = table
           ELSE pc' = "error" /\ UNCHANGED result
    /\ UNCHANGED <<call, file, pos, data, handle, long, lookup>>

\* load_ghcn_daily(filename) up to f = open(filename, 'r')
DailyOpen(f) ==
    /\ pc = "idle"
    /\ pc' = "daily_loop"
    /\ call' = "load_ghcn_daily"
    /\ file' = f
    /\ pos' = 0
    /\ data' = <<>>
    /\ handle' = "open"
    /\ result' = NoTable
    /\ long' = <<>>
    /\ UNCHANGED lookup

\* one pass of "for line in f" in load_ghcn_daily: data = update_data(data, line)
DailyLine ==
    /\ pc = "daily_loop"
    /\ pos < Len(file)
    /\ pos' = pos + 1
    /\ LET updated == update_data(data, file[pos + 1])
       IN  /\ pc' = IF updated.raised THEN "error" ELSE pc
           /\ data' = updated.data
    /\ UNCHANGED <<call, file, handle, result, long, lookup>>

\* load_ghcn_daily leaving its loop without f.close()
DailyClose_without_close ==
    /\ pc = "daily_loop"
    /\ pos = Len(file)
    /\ pc' = "daily_closed"
    /\ UNCHANGED <<call, file, pos, data, handle, result, long, lookup>>

\* f.close() after the loop of load_ghcn_daily
DailyClose ==
    /\ pc = "daily_loop"
    /\ pos = Len(file)
    /\ handle' = "closed"
    /\ pc' = "daily_closed"
    /\ UNCHANGED <<call, file, pos, data, result, long, lookup>>

\* return pd.DataFrame(data[1:], columns=data[0]) of load_ghcn_daily
DailyReturn ==
    /\ pc = "daily_closed"
    /\ LET table == DataFrame(data, DailyColumns)
       IN  IF table.made
           THEN pc' = "returned_daily" /\ result' = table
           ELSE pc' = "error" /\ UNCHANGED result
    /\ UNCHANGED <<call, file, pos, data, handle, long, lookup>>

\* transpose_ghcn on the table load_ghcn_daily returned (the second half of
\* load_ghcn_timeseries)
Transpose ==
    /\ pc = "returned_daily"
    /\ long' = transpose_ghcn(result)
    /\ pc' = "transposed"
    /\ UNCHANGED <<call, file, pos, data, handle, result, lookup>>

\* the call chain is over: what it built is dropped (nothing is kept between
\* calls), and the caller is free to call again
Finish ==
    /\ pc \in Terminal
    /\ pc' = "idle"
    /\ call' = "none"
    /\ file' = <<>>
    /\ pos' = 0
    /\ data' = <<>>
    /\ handle' = "none"
    /\ result' = NoTable
    /\ long' = <<>>
    /\ UNCHANGED lookup

Next ==
    \/ \E f \in MetaFiles : MetaOpen(f)
    \/ MetaLine
    \/ MetaClose
    \/ MetaReturn
    \/ \E f \in DailyFiles : DailyOpen(f)
    \/ DailyLine
    \/ DailyClose
    \/ DailyReturn
    \/ Transpose
    \/ Finish

Spec == Init /\ [][Next]_vars

TypeOK ==
    /\ pc \in Terminal \cup {"idle", "meta_loop", "meta_closed", "daily_loop", "daily_closed"}
    /\ pos \in 0..Len(file)
    /\ handle \in {"none", "open", "closed"}
    /\ call \in {"none", "load_ghcn_meta", "load_ghcn_daily"}

-----------------------------------------------------------------------------
(* Properties                                                              *)

InDaily == call = "load_ghcn_daily"

InMeta == call = "load_ghcn_meta"

Returned == pc \in {"returned_meta", "returned_daily", "transposed"}

\* the 20 scale-by-10 names as claim C1 lists them
C1_ScaleNames ==
    { <<"p","r","c","p">>,
      <<"t","m","a","x">>,
      <<"t","m","i","n">>,
      <<"a","w","n","d">>,
      <<"e","v","a","p">>,
      <<"m","d","e","v">>,
      <<"m","d","p","r">>,
      <<"m","d","t","n">>,
      <<"m","d","t","x">>,
      <<"m","n","p","n">>,
      <<"m","x","p","n">>,
      <<"t","o","b","s">>,
      <<"w","e","s","d">>,
      <<"w","e","s","f">>,
      <<"w","s","f","1">>,
      <<"w","s","f","2">>,
      <<"w","s","f","5">>,
      <<"w","s","f","g">>,
      <<"w","s","f","i">>,
      <<"w","s","f","m">> }

\* the number in the day field d (1-indexed) of a daily line
RawDay(line, d) == to_float(line, 21 + (d - 1) * 8, 21 + (d - 1) * 8 + 5)

\* the text of the day field d (1-indexed) of a daily line
RawDayText(line, d) == Slice(line, 21 + (d - 1) * 8, 21 + (d - 1) * 8 + 5)

\* C1: every loaded day value follows the three-case policy in priority
\* order: a raw -9999 is missing whatever the variable (never -999.9);
\* otherwise a scale-by-10 variable holds a tenth of the raw number (00125
\* gives 12.5); otherwise the raw number is kept (00001 gives 1).
C1_PostprocessPolicy ==
    InDaily =>
        \A i \in 1..Len(data) : \A d \in 1..(Len(data[i]) - 3) :
            LET n == RawDay(file[i], d)
                v == data[i][3].s
                out == data[i][3 + d]
            IN  /\ n.v = (-9999) * 10000 => out = NaN
                /\ (n.v # (-9999) * 10000 /\ v \in C1_ScaleNames) =>
                       out.kind = "float" /\ 10 * out.v = n.v
                /\ (n.v # (-9999) * 10000 /\ v \notin C1_ScaleNames) => out = n
                /\ (RawDayText(file[i], d) = <<"0","0","1","2","5">> /\ v \in C1_ScaleNames) =>
                       out = NumCell(125000)
                /\ (RawDayText(file[i], d) = <<"0","0","0","0","1">> /\ v \notin C1_ScaleNames) =>
                       out = NumCell(10000)

\* C1 witness: a tmax row with 12.5 on day 1 and a missing day 2 (raw -9999
\* on a scale-by-10 variable), and a wt_fog row with 1 on day 1 and a missing
\* day 2
C1_Witness ==
    /\ InDaily
    /\ \E i \in 1..Len(data) : \E j \in 1..Len(data) :
          /\ data[i][3].s = <<"t","m","a","x">>
          /\ RawDayText(file[i], 1) = <<"0","0","1","2","5">> /\ data[i][4] = NumCell(125000)
          /\ RawDayText(file[i], 2) = <<"-","9","9","9","9">> /\ data[i][5] = NaN
          /\ data[j][3].s = <<"w","t","_","f","o","g">>
          /\ RawDayText(file[j], 1) = <<"0","0","0","0","1">> /\ data[j][4] = NumCell(10000)
          /\ RawDayText(file[j], 2) = <<"-","9","9","9","9">> /\ data[j][5] = NaN

\* the calendar length of a month, as claim C2 states it
C2_MonthLength(y, m) ==
    IF m = 2
    THEN (IF y % 4 = 0 /\ (y % 100 # 0 \/ y % 400 = 0) THEN 29 ELSE 28)
    ELSE IF m \in {4, 6, 9, 11} THEN 30 ELSE 31

\* the days of the long rows of one (year, month), in table order
C2_GroupDays(y, m) ==
    LET g == SelectSeq(long, LAMBDA r : r.year = y /\ r.month = m)
    IN  [k \in 1..Len(g) |-> g[k].day]

\* C2: for every (year, month) group of the wide table the reshaped rows
\* are exactly the days 1..N, N the calendar length of the month (28 for
\* 2021-02, 29 for 2020-02), and no long row lies outside the groups.
C2_CalendarDaysSelected ==
    pc = "transposed" =>
        /\ \A i \in 1..Len(result.rows) :
              LET y == result.rows[i][1].v
                  m == result.rows[i][2].v
              IN  /\ C2_GroupDays(y, m) = [d \in 1..C2_MonthLength(y, m) |-> d]
                  /\ (y = 2021 /\ m = 2) => C2_GroupDays(y, m) = [d \in 1..28 |-> d]
                  /\ (y = 2020 /\ m = 2) => C2_GroupDays(y, m) = [d \in 1..29 |-> d]
        /\ \A k \in 1..Len(long) :
              \E i \in 1..Len(result.rows) :
                  /\ result.rows[i][1].v = long[k].year
                  /\ result.rows[i][2].v = long[k].month

\* C2 witness: a reshaped table with a 2021-02 group whose wide row has the
\* day columns 29..31 as unset slots, and exactly 28 long rows
C2_Witness ==
    /\ pc = "transposed"
    /\ Len(result.columns) = 34
    /\ \E i \in 1..Len(result.rows) :
          /\ result.rows[i][1].v = 2021 /\ result.rows[i][2].v = 2
          /\ \A d \in 29..31 : result.rows[i][3 + d] = NaN
    /\ Len(C2_GroupDays(2021, 2)) = 28

\* C3: the reshape is a transpose within each group: for every wide row
\* with variable v and every in-range day d there is a long row of the same
\* year and month with day d whose column v holds the wide row's value in
\* day column d.
C3_TrueTranspose ==
    pc = "transposed" =>
        \A i \in 1..Len(result.rows) :
            LET y == result.rows[i][1].v
                m == result.rows[i][2].v
                v == result.rows[i][3].s
            IN  \A d \in 1..C2_MonthLength(y, m) :
                    \E k \in 1..Len(long) :
                        /\ long[k].year = y /\ long[k].month = m /\ long[k].day = d
                        /\ \E j \in 1..Len(long[k].columns) :
                              /\ long[k].columns[j] = v
                              /\ long[k].values[j] = result.rows[i][3 + d]

\* C3 witness: two wide rows prcp and tmax of 2021-01 reshaped into 31 long
\* rows, one per day, each with a prcp and a tmax value
C3_Witness ==
    /\ pc = "transposed"
    /\ Len(result.rows) = 2
    /\ \A i \in 1..2 : result.rows[i][1].v = 2021 /\ result.rows[i][2].v = 1
    /\ result.rows[1][3].s = <<"p","r","c","p">>
    /\ result.rows[2][3].s = <<"t","m","a","x">>
    /\ Len(long) = 31
    /\ \A k \in 1..31 :
          /\ long[k].day = k
          /\ long[k].columns = <<<<"p","r","c","p">>, <<"t","m","a","x">>>>
          /\ long[k].values[1].kind = "float"
          /\ long[k].values[2].kind = "float"

\* a key of the weather-type table as claim C9 lists them: wt01..wt19,
\* wt21, wt22
C9_IsWeatherKey(code) ==
    /\ Len(code) = 4
    /\ code[1] = "w" /\ code[2] = "t"
    /\ IsDigit(code[3]) /\ IsDigit(code[4])
    /\ 10 * DigitVal(code[3]) + DigitVal(code[4]) \in (1..19) \cup {21, 22}

\* C9: the variable name of every loaded row is the lower-cased 4-character
\* code at offsets 17..21, replaced by its decoded name when it is a key of
\* the weather-type table (wt01 gives wt_fog) and unchanged otherwise (wt20
\* included); and the table is the one the module defines, in every state.
C9_VarnameLookup ==
    /\ lookup = WeatherTypeTable
    /\ \A k \in 1..Len(WeatherTypeTable) : C9_IsWeatherKey(WeatherTypeTable[k][1])
    /\ InDaily =>
          \A i \in 1..Len(data) :
              LET code == Lower(Slice(file[i], 17, 21))
                  var == data[i][3].s
              IN  /\ C9_IsWeatherKey(code) => var = LookupGet(WeatherTypeTable, code)
                  /\ code = <<"w","t","0","1">> => var = <<"w","t","_","f","o","g">>
                  /\ ~C9_IsWeatherKey(code) => var = code

\* C9 witness: a row decoded from the upper-case code WT01 and a row whose
\* code WT20 has no entry and is passed through lower-cased
C9_Witness ==
    /\ InDaily
    /\ \E i \in 1..Len(data) : \E j \in 1..Len(data) :
          /\ Slice(file[i], 17, 21) = <<"W","T","0","1">>
          /\ data[i][3].s = <<"w","t","_","f","o","g">>
          /\ Slice(file[j], 17, 21) = <<"W","T","2","0">>
          /\ data[j][3].s = <<"w","t","2","0">>

\* C10: a call holds exactly one handle, which is open during the scan, is
\* closed only after the last line has been read, and is closed before a
\* table exists; a call that has returned holds no open handle.
C10_HandleReleased ==
    /\ (call = "none") <=> (handle = "none")
    /\ pc \in {"meta_loop", "daily_loop"} => handle = "open"
    /\ handle = "closed" => pos = Len(file)
    /\ result.made => handle = "closed"
    /\ Returned => handle = "closed" /\ pos = Len(file)
    /\ pc \in {"meta_closed", "daily_closed"} => handle = "closed" /\ ~result.made

\* C10 witness: load_ghcn_daily has returned the table of a two-line file
\* and its handle is closed
C10_Witness ==
    /\ pc = "returned_daily"
    /\ Len(file) = 2
    /\ Len(result.rows) = 2
    /\ handle = "closed"

\* the nine column names as claim C7 lists them
C7_Names ==
    << <<"i","d">>,
       <<"l","a","t">>,
       <<"l","o","n">>,
       <<"e","l","e","v">>,
       <<"s","t","a","t","e">>,
       <<"n","a","m","e">>,
       <<"g","s","n","_","f","l","a","g">>,
       <<"h","c","n","_","f","l","a","g">>,
       <<"w","m","o","_","i","d">> >>

IsNumeric(typ) == typ = "float" \/ typ = "int"

\* the schema field k lies wholly inside the line, before its last character
FieldInside(line, k) == end_idxs[k] < Len(line)

\* C7: load_ghcn_meta never skips a line.  While it scans, the list holds
\* one row of nine cells per line read, row i built from line i (fields
\* wholly inside the line converted, fields wholly beyond it filled with
\* the fallback value); the scan stops early only on a line with text that
\* does not convert in a numeric field wholly inside the line, so an empty
\* or cut line alone never stops it; the returned table has one row per
\* line in file order and the nine columns in schema order.
C7_OneRowPerLine ==
    InMeta =>
        /\ pc # "error" => Len(data) = pos
        /\ pc = "error" =>
              /\ Len(data) = pos - 1
              /\ \E k \in 1..9 :
                    /\ IsNumeric(types[k])
                    /\ FieldInside(file[pos], k)
                    /\ IsErr(CONVERSIONS(types[k], file[pos], start_idxs[k], end_idxs[k]))
        /\ \A i \in 1..Len(data) :
              /\ Len(data[i]) = 9
              /\ \A k \in 1..9 :
                    /\ FieldInside(file[i], k) =>
                          data[i][k] = CONVERSIONS(types[k], file[i],
                                                   start_idxs[k], end_idxs[k])
                    /\ start_idxs[k] >= Len(file[i]) =>
                          data[i][k] = FALSE_VALUES(types[k])
        /\ pc = "returned_meta" =>
              /\ result.made
              /\ Len(result.rows) = Len(file)
              /\ result.rows = data
              /\ [k \in 1..Len(result.columns) |-> result.columns[k].s] = C7_Names

\* C7 witness: the returned table of a two-line file, an empty line and a
\* line cut in the middle of the latitude, with a row of fallback values
\* for each
C7_Witness ==
    /\ pc = "returned_meta"
    /\ Len(file) = 2
    /\ file[1] = NL
    /\ Len(file[2]) = 16
    /\ Len(result.rows) = 2
    /\ result.rows[1][1] = StrCell(<<>>)
    /\ result.rows[1][9] = IntCell(0)
    /\ result.rows[2][1].s = Lower(StationId)
    /\ result.rows[2][2] = NaN

\* C5 as stated: a field is absent, and takes its fallback value, exactly
\* when the line's length is below the field's end offset; when the length
\* reaches the end offset the field is the converted slice.
C5_AbsentIffShorter ==
    InMeta =>
        \A i \in 1..Len(data) : \A k \in 1..9 :
            data[i][k] = IF Len(file[i]) < end_idxs[k]
                         THEN FALSE_VALUES(types[k])
                         ELSE CONVERSIONS(types[k], file[i],
                                          start_idxs[k], end_idxs[k])

\* the daily line holds text that is no number in a numeric field that lies
\* inside the line, or names a month that is none
DailyBadText(line) ==
    \/ Len(line) >= 15 /\ IsErr(load_year(line))
    \/ Len(line) >= 17 /\ IsErr(load_month(line))
    \/ Len(line) >= 17 /\ ~IsErr(load_month(line)) /\ load_month(line).v \notin 1..12
    \/ \E d \in 1..31 : Len(line) >= 21 + (d - 1) * 8 + 5 /\ IsErr(RawDay(line, d))

\* C6 as stated: in load_ghcn_daily a line too short for a field is no
\* error: the scan never stops on a line unless the line holds bad text, and
\* a day field that ends beyond the line is loaded as missing.
C6_TruncationNeverFails ==
    InDaily =>
        /\ (pc = "error" /\ handle = "open") => DailyBadText(file[pos])
        /\ \A i \in 1..Len(data) : \A d \in 1..(Len(data[i]) - 3) :
              Len(file[i]) < 21 + (d - 1) * 8 + 5 => data[i][3 + d] = NaN

\* a daily line of the full layout whose numeric fields all convert
DailyWellFormed(line) ==
    /\ Len(line) >= 269
    /\ ~IsErr(load_year(line))
    /\ ~IsErr(load_month(line))
    /\ load_month(line).v \in 1..12
    /\ \A d \in 1..31 : ~IsErr(RawDay(line, d))

\* C4 as stated: for a daily file of well-formed lines load_ghcn_daily
\* returns a table of 34 columns with one row per line, the day columns
\* 1..N of a row holding the loaded values of the line and the day columns
\* N+1..31 unset.
C4_WideTableOfWellFormedFile ==
    (InDaily /\ \A i \in 1..Len(file) : DailyWellFormed(file[i])) =>
        /\ pc # "error"
        /\ pc = "returned_daily" =>
              /\ result.made
              /\ Len(result.columns) = 34
              /\ Len(result.rows) = Len(file)
              /\ \A i \in 1..Len(file) :
                    LET y == load_year(file[i])
                        m == load_month(file[i])
                    IN  /\ result.rows[i][1] = y /\ result.rows[i][2] = m
                        /\ \A d \in 1..31 :
                              result.rows[i][3 + d] =
                                  IF d <= C2_MonthLength(y.v, m.v)
                                  THEN daily_number_postprocess(RawDay(file[i], d),
                                                                result.rows[i][3].s)
                                  ELSE NaN

\* the file holds a line with text that does not convert in a numeric field
\* the line's length reaches
FileMalformed ==
    \E i \in 1..Len(file) :
        IF InMeta
        THEN \E k \in 1..9 :
                 /\ IsNumeric(types[k])
                 /\ Len(file[i]) >= end_idxs[k]
                 /\ IsErr(CONVERSIONS(types[k], file[i], start_idxs[k], end_idxs[k]))
        ELSE DailyBadText(file[i])

\* C8 as stated: a load call ends in the error state, with no table, if a
\* line has a present numeric field that does not convert, and otherwise
\* returns a table covering every line.
C8_AllOrNothing ==
    (InMeta \/ InDaily) =>
        /\ pc = "error" => FileMalformed /\ ~result.made
        /\ Returned => ~FileMalformed /\ Len(result.rows) = Len(file)

====
